---- MODULE Spec2Model ----
(***************************************************************************)
(* Model of the promotion guard (community_promoter.py) and of the         *)
(* caption validation / fallback pipeline (monetization_brain.py).         *)
(***************************************************************************)
EXTENDS Integers, Sequences, FiniteSets, TLC

(***************************************************************************)
(* Bounds of the model.                                                    *)
(***************************************************************************)
\* total number of _promote_sync calls started or scheduled in one behaviour
MaxAttempts == 3
\* number of times the wall clock is advanced in one behaviour
MaxTicks == 3

\* number of save_successful_caption calls started in one behaviour
MaxPersists == 2

(***************************************************************************)
(* State of monetization_brain.py                                          *)
(***************************************************************************)
VARIABLES
    provider,   \* brain.provider: "gemini" when the model was configured
    store,      \* content of caption_prompt.json
    bpc,        \* per caller of save_successful_caption: its position
    tmpfile,    \* per caller: content of its temporary file
    persists,   \* number of save_successful_caption calls started
    persisted,  \* what the last save_successful_caption that replaced the file stored
    last        \* the last call that returned and what it returned

bvars == <<provider, store, bpc, tmpfile, persists, persisted, last>>

(***************************************************************************)
(* community_promoter.py                                                   *)
(***************************************************************************)
VARIABLES
    clock,      \* time.time(), seconds
    ticks,      \* how often the clock was advanced
    gfile,      \* content of community_promo_state.json
    state,      \* promoter.state, the in-memory guard state
    pc,         \* per thread: position inside _promote_sync
    hash,       \* per thread: content_hash of the attempt
    url,        \* per thread: video_url of the attempt
    outcome,    \* per thread: how the last attempt ended
    attempts,   \* number of attempts started or scheduled
    lastSuccess,\* when a post was last registered on this guard (-1: never)
    posts,      \* the commentThreads().insert calls that succeeded
    calls,      \* per thread: commentThreads().insert calls made by its attempt
    due,        \* per task of schedule_promotion: when its sleep ends (0: none)
    performed   \* the fingerprints on record when the process started and
                \* those registered since, oldest first

pvars == <<clock, ticks, gfile, state, pc, hash, url, outcome, attempts, lastSuccess, posts, calls, due,
           performed>>

vars == <<pvars, bvars>>

Threads == {1, 2}

\* 6 * 3600 in _can_run
COOLDOWN == 6 * 3600
\* "last 50" in _register_success
HISTORY_LIMIT == 50
\* number of entries of the templates list in _get_template
NUM_TEMPLATES == 4

\* the clock readings a behaviour starts at: the spec's scenario time and a
\* present-day epoch time
StartTimes == {1000, 1700000000}
\* the amounts by which the clock advances between two steps
TickSteps == {1, COOLDOWN - 1, COOLDOWN}

\* video urls, as sequences of the pieces that _extract_video_id splits on
URLS == << <<"https:", "/", "/", "youtu.be", "/", "abc", "?", "t=1">>,
           <<"https:", "/", "/", "youtube.com", "/", "watch", "?", "v=", "abc", "&", "t=1">>,
           <<"https:", "/", "/", "youtu.be", "/">>,
           <<"https:", "/", "/", "example.com", "/", "clip">> >>
ClipCounts == {10}

Contains(s, tok) == \E i \in 1..Len(s) : s[i] = tok

\* s.split(tok)[-1]: what follows the last occurrence of tok
SplitLast(s, tok) ==
    IF ~Contains(s, tok) THEN s
    ELSE LET k == CHOOSE i \in 1..Len(s) :
                     s[i] = tok /\ \A j \in (i+1)..Len(s) : s[j] # tok
         IN  SubSeq(s, k + 1, Len(s))

\* s.split(tok)[0]: what precedes the first occurrence of tok
SplitFirst(s, tok) ==
    IF ~Contains(s, tok) THEN s
    ELSE LET k == CHOOSE i \in 1..Len(s) :
                     s[i] = tok /\ \A j \in 1..(i-1) : s[j] # tok
         IN  SubSeq(s, 1, k - 1)

\* _extract_video_id; <<>> stands for both "" and None (both are falsy)
ExtractVideoId(u) ==
    IF Contains(u, "youtu.be") THEN SplitFirst(SplitLast(u, "/"), "?")
    ELSE IF Contains(u, "v=") THEN SplitFirst(SplitLast(u, "v="), "&")
    ELSE <<>>

\* _get_template: the text is determined by the template chosen and the
\* two parameters substituted into it
GetTemplate(i, clip_count, u) == [tmpl |-> i, clip_count |-> clip_count, video_url |-> u]

UrlIndex(u) == CHOOSE i \in 1..Len(URLS) : URLS[i] = u

\* hashlib.md5(text.encode()).hexdigest(): a digest that is distinct for
\* distinct texts of the model
Md5(text) ==
    text.tmpl + NUM_TEMPLATES * (UrlIndex(text.video_url) - 1)
              + NUM_TEMPLATES * Len(URLS) * text.clip_count

\* digests of texts posted in earlier runs of the program
OldHash(i) == 100000 + i
OldHashes(n) == [i \in 1..n |-> OldHash(i)]

\* the default of _load_state
DefaultState == [kind |-> "dict", last_run |-> 0, posted_hashes |-> <<>>]

\* contents of the state file: missing, unreadable, or a JSON document
FileAbsent  == [kind |-> "absent",  last_run |-> 0, posted_hashes |-> <<>>]
FileCorrupt == [kind |-> "corrupt", last_run |-> 0, posted_hashes |-> <<>>]

\* _load_state
LoadState(file) ==
    IF file.kind = "absent" THEN DefaultState
    ELSE IF file.kind = "corrupt" THEN DefaultState
    ELSE file

\* json.dump(self.state, f)
DumpState(st) == st

\* _can_run with the window written in minutes
CanRunShortWindow(st, now, content_hash) ==
    IF st.kind # "dict" THEN "raise"
    ELSE IF now - st.last_run < 6 * 60 THEN "rate"
    ELSE IF Contains(st.posted_hashes, content_hash) THEN "dup"
    ELSE "ok"

\* _can_run without its duplicate guard
CanRunNoDuplicateGuard(st, now, content_hash) ==
    IF st.kind # "dict" THEN "raise"
    ELSE IF now - st.last_run < 6 * 3600 THEN "rate"
    ELSE "ok"

\* _can_run: "ok", "rate" (rate limit), "dup" (duplicate) or "raise"
\* (self.state is not a dict, so .get raises)
CanRun(st, now, content_hash) ==
    IF st.kind # "dict" THEN "raise"
    ELSE IF now - st.last_run < COOLDOWN THEN "rate"
    ELSE IF Contains(st.posted_hashes, content_hash) THEN "dup"
    ELSE "ok"

\* hashes[-50:]
LastN(s, n) == IF Len(s) > n THEN SubSeq(s, Len(s) - n + 1, Len(s)) ELSE s

\* _register_success keeping the first 50 entries, hashes[:50]
RegisteredKeepOldest(st, now, content_hash) ==
    [st EXCEPT !.last_run = now,
               !.posted_hashes = SubSeq(Append(st.posted_hashes, content_hash), 1,
                                        IF Len(st.posted_hashes) + 1 > 50 THEN 50
                                        ELSE Len(st.posted_hashes) + 1)]

\* _register_success, before the save
Registered(st, now, content_hash) ==
    [st EXCEPT !.last_run = now,
               !.posted_hashes = LastN(Append(st.posted_hashes, content_hash), HISTORY_LIMIT)]

\* a try that begins only at the first API call
CaughtFromApiCall(site) == site \in {"channels", "extract", "insert", "register"}

\* the try/except Exception of _promote_sync covers every statement of it
Caught(site) == site \in {"template", "can_run", "channels", "extract", "insert", "register"}

\* where an exception raised at `site` leaves the attempt
Raised(site) == IF Caught(site) THEN "ExternalFailure" ELSE "Escaped"

\* the guard file of a process that posted 50 times, last 7 hours ago
FullFile ==
    [kind |-> "dict", last_run |-> 1700000000 - 7 * 3600,
     posted_hashes |-> <<Md5(GetTemplate(1, 10, URLS[1]))>> \o OldHashes(HISTORY_LIMIT - 1)]

\* states of the guard file left by earlier runs
PriorFiles ==
    { FileAbsent, FileCorrupt,
      [kind |-> "dict", last_run |-> 0, posted_hashes |-> <<>>],
      FullFile,
      [kind |-> "list", last_run |-> 0, posted_hashes |-> <<>>] }

\* the (template, url) pairs that attempts are made with
AttemptInputs == { <<1, 1>>, <<2, 1>>, <<1, 2>>, <<1, 3>>, <<1, 4>> }

PInitOver(times, files) ==
    /\ clock \in times
    /\ ticks = 0
    /\ gfile \in files
    /\ state = LoadState(gfile)
    /\ pc = [t \in Threads |-> "idle"]
    /\ hash = [t \in Threads |-> 0]
    /\ url = [t \in Threads |-> <<>>]
    /\ outcome = [t \in Threads |-> "none"]
    /\ attempts = 0
    /\ lastSuccess = -1
    /\ posts = {}
    /\ calls = [t \in Threads |-> 0]
    /\ due = [t \in Threads |-> 0]
    /\ performed = LoadState(gfile).posted_hashes

\* time passes
Tick ==
    /\ ticks < MaxTicks
    /\ \E d \in TickSteps : clock' = clock + d
    /\ ticks' = ticks + 1
    /\ UNCHANGED <<gfile, state, pc, hash, url, outcome, attempts, lastSuccess, posts, calls, due, performed, bvars>>

\* the default of delay_seconds
Delays == {180}

\* schedule_promotion without its sleep
ElapsedAtOnce(t) == TRUE

\* await asyncio.sleep(delay_seconds) has returned
Elapsed(t) == clock >= due[t]

\* schedule_promotion, up to its sleep: the task is suspended
Schedule(t) ==
    /\ pc[t] \in {"idle", "done"}
    /\ attempts < MaxAttempts
    /\ pc' = [pc EXCEPT ![t] = "sleeping"]
    /\ \E d \in Delays : due' = [due EXCEPT ![t] = clock + d]
    /\ outcome' = [outcome EXCEPT ![t] = "none"]
    /\ attempts' = attempts + 1
    /\ UNCHANGED <<clock, ticks, gfile, state, hash, url, lastSuccess, posts, calls, performed, bvars>>

\* _promote_sync, step 1: render the text and hash it.  The call is made
\* directly, or by schedule_promotion once its sleep has returned
Start(t) ==
    /\ \/ pc[t] \in {"idle", "done"} /\ attempts < MaxAttempts
       \/ pc[t] = "sleeping" /\ Elapsed(t)
    /\ \E in \in AttemptInputs, c \in ClipCounts :
          /\ hash' = [hash EXCEPT ![t] = Md5(GetTemplate(in[1], c, URLS[in[2]]))]
          /\ url' = [url EXCEPT ![t] = URLS[in[2]]]
    /\ pc' = [pc EXCEPT ![t] = "can_run"]
    /\ outcome' = [outcome EXCEPT ![t] = "none"]
    /\ attempts' = IF pc[t] = "sleeping" THEN attempts ELSE attempts + 1
    /\ calls' = [calls EXCEPT ![t] = 0]
    /\ due' = [due EXCEPT ![t] = 0]
    /\ UNCHANGED <<clock, ticks, gfile, state, lastSuccess, posts, performed, bvars>>

\* the attempt returns; its locals die with it
Finish(t, how) ==
    /\ pc' = [pc EXCEPT ![t] = "done"]
    /\ outcome' = [outcome EXCEPT ![t] = how]
    /\ hash' = [hash EXCEPT ![t] = 0]
    /\ url' = [url EXCEPT ![t] = <<>>]

\* the attempt goes on to its next statement
Goto(t, where) ==
    /\ pc' = [pc EXCEPT ![t] = where]
    /\ UNCHANGED <<outcome, hash, url>>

\* _promote_sync, step 2: the guard checks
GuardCheck(t) ==
    /\ pc[t] = "can_run"
    /\ LET v == CanRun(state, clock, hash[t]) IN
         CASE v = "ok"    -> Goto(t, "channels")
           [] v = "rate"  -> Finish(t, "RateLimited")
           [] v = "dup"   -> Finish(t, "Duplicate")
           [] OTHER       -> Finish(t, Raised("can_run"))
    /\ UNCHANGED <<clock, ticks, gfile, state, attempts, lastSuccess, posts, calls, due, performed, bvars>>

\* _promote_sync, steps 3 and 3b: resolve the channel id and the video id
Resolve(t) ==
    /\ pc[t] = "channels"
    /\ \E resp \in {"raises", "no_items", "items"} :
         CASE resp = "raises"   -> Finish(t, Raised("channels"))
           [] resp = "no_items" -> Finish(t, "PreconditionUnresolved")
           [] OTHER ->
                IF ExtractVideoId(url[t]) = <<>>
                THEN Finish(t, "PreconditionUnresolved")
                ELSE Goto(t, "insert")
    /\ UNCHANGED <<clock, ticks, gfile, state, attempts, lastSuccess, posts, calls, due, performed, bvars>>

\* what is recorded of a comment posted by thread t: whether a post was
\* registered on this guard less than the cooldown ago, and whether the
\* fingerprint was in the history when the comment went out
Post(t) ==
    [fp    |-> hash[t],
     early |-> lastSuccess # -1 /\ clock - lastSuccess < COOLDOWN,
     seen  |-> state.kind = "dict" /\ Contains(state.posted_hashes, hash[t])]

\* step 4 with the success registered before the call is made
InsertRegisteredFirst(t) ==
    /\ pc[t] = "insert"
    /\ state' = Registered(state, clock, hash[t])
    /\ \/ /\ Finish(t, Raised("insert"))
          /\ UNCHANGED posts
       \/ /\ Goto(t, "register")
          /\ posts' = posts \cup {Post(t)}
    /\ calls' = [calls EXCEPT ![t] = calls[t] + 1]
    /\ UNCHANGED <<clock, ticks, gfile, attempts, lastSuccess, due, performed, bvars>>

\* step 4 with the call made once more when it raised
InsertRetried(t) ==
    /\ pc[t] = "insert"
    /\ \/ /\ IF calls[t] = 0 THEN Goto(t, "insert") ELSE Finish(t, Raised("insert"))
          /\ UNCHANGED posts
       \/ /\ Goto(t, "register")
          /\ posts' = posts \cup {Post(t)}
    /\ calls' = [calls EXCEPT ![t] = calls[t] + 1]
    /\ UNCHANGED <<clock, ticks, gfile, state, attempts, lastSuccess, due, performed, bvars>>

\* _promote_sync, step 4: commentThreads().insert(...).execute()
Insert(t) ==
    /\ pc[t] = "insert"
    /\ \/ /\ Finish(t, Raised("insert"))
          /\ UNCHANGED posts
       \/ /\ Goto(t, "register")
          /\ posts' = posts \cup {Post(t)}
    /\ calls' = [calls EXCEPT ![t] = calls[t] + 1]
    /\ UNCHANGED <<clock, ticks, gfile, state, attempts, lastSuccess, due, performed, bvars>>

\* _promote_sync, step 5: _register_success and _save_state
Register(t) ==
    /\ pc[t] = "register"
    /\ state' = Registered(state, clock, hash[t])
    /\ \E save \in {"ok", "open_fails", "write_fails"} :
         gfile' = CASE save = "ok"         -> DumpState(state')
                    [] save = "open_fails" -> gfile
                    [] OTHER               -> FileCorrupt
    /\ lastSuccess' = clock
    /\ performed' = Append(performed, hash[t])
    /\ Finish(t, "Performed")
    /\ UNCHANGED <<clock, ticks, attempts, posts, calls, due, bvars>>

\* _save_state interrupted by a crash: nothing was done yet, or open(.., 'w')
\* has truncated the file and json.dump has written none or a part of the
\* document, or the whole document is written
SaveCrashed(old, new) == {old, FileCorrupt, new}

\* the process is torn down while a task sleeps or an attempt registers its
\* success, and is started again: sleeping tasks and running attempts are
\* gone, an attempt inside _register_success may have been inside
\* _save_state, and the new process loads the state file
PCrash ==
    /\ \E t \in Threads : pc[t] \in {"sleeping", "register"}
    /\ \/ gfile' = gfile
       \/ \E t \in Threads :
             /\ pc[t] = "register"
             /\ gfile' \in SaveCrashed(gfile, DumpState(Registered(state, clock, hash[t])))
    /\ state' = LoadState(gfile')
    /\ pc' = [t \in Threads |-> "idle"]
    /\ hash' = [t \in Threads |-> 0]
    /\ url' = [t \in Threads |-> <<>>]
    /\ outcome' = [t \in Threads |-> "none"]
    /\ calls' = [t \in Threads |-> 0]
    /\ due' = [t \in Threads |-> 0]
    /\ performed' = LoadState(gfile').posted_hashes
    /\ UNCHANGED <<clock, ticks, attempts, lastSuccess, posts, bvars>>

PromoteStep(t) ==
    \/ Start(t)
    \/ GuardCheck(t)
    \/ Resolve(t)
    \/ Insert(t)
    \/ Register(t)

(***************************************************************************)
(* monetization_brain.py                                                   *)
(*                                                                         *)
(* A string is a sequence of pieces: " " is white space, "#" and "@" are   *)
(* the two symbols, every other piece is a run of non-space characters.    *)
(* Pieces that follow each other without a " " between them form one word. *)
(***************************************************************************)
Callers == {1, 2}

\* word_count < 4 or word_count > 25
MIN_WORDS == 4
MAX_WORDS == 25
\* len(data["caption_final"]) > 5
MIN_STORED_LEN == 5
\* len(val.split()) >= 2
MIN_STORED_WORDS == 2

\* str.lower() of one piece
LowerTok(tok) ==
    CASE tok = "A"         -> "a"
      [] tok = "Caption:"  -> "caption:"
      [] tok = "TITLE:"    -> "title:"
      [] tok = "Editorial" -> "editorial"
      [] tok = "Safe"      -> "safe"
      [] tok = "Context"   -> "context"
      [] tok = "Quota"     -> "quota"
      [] OTHER             -> tok

\* str.lower()
Lower(s) == [i \in 1..Len(s) |-> LowerTok(s[i])]

\* number of characters of one piece
TokLen(tok) ==
    CASE tok \in {" ", "#", "@", "A", "a", "b", "c", "d", "w"} -> 1
      [] tok \in {"hi"} -> 2
      [] tok \in {"you", "429", "503", "ypp"} -> 3
      [] tok \in {"nice", "ootd", "look", "Safe", "safe"} -> 4
      [] tok \in {"quiet", "today", "there", "Quota", "quota"} -> 5
      [] tok \in {"moment", "outfit", "TITLE:", "title:"} -> 6
      [] tok \in {"Context", "context"} -> 7
      [] tok \in {"captured", "Caption:", "caption:"} -> 8
      [] OTHER -> 9

\* len(s)
RECURSIVE CharLen(_)
CharLen(s) == IF s = <<>> THEN 0 ELSE TokLen(Head(s)) + CharLen(Tail(s))

\* str.strip()
Strip(s) ==
    IF \A i \in 1..Len(s) : s[i] = " " THEN <<>>
    ELSE LET lo == CHOOSE i \in 1..Len(s) : s[i] # " " /\ \A j \in 1..(i-1) : s[j] = " "
             hi == CHOOSE i \in 1..Len(s) : s[i] # " " /\ \A j \in (i+1)..Len(s) : s[j] = " "
         IN  SubSeq(s, lo, hi)

\* len(s.split()): the number of maximal runs of non-space pieces
WordCount(s) ==
    Cardinality({ i \in 1..Len(s) : s[i] # " " /\ (i = 1 \/ s[i-1] = " ") })

\* the tuple given to lower_cap.startswith
BANNED_PREFIXES == {"caption:", "title:", "description:", "output:"}

\* lower_cap.startswith((...))
StartsWithBanned(lower) == Len(lower) >= 1 /\ lower[1] \in BANNED_PREFIXES

\* banned_keywords
BANNED_KEYWORDS ==
    { <<"editorial">>, <<"approved">>, <<"safe", " ", "context">>,
      <<"public", " ", "domain">>, <<"ypp", " ", "safe">> }

\* the hardcoded return of get_safe_fallback
DEFAULT_CAPTION == <<"A", " ", "quiet", " ", "moment", " ", "captured", " ", "today">>

\* n words, separated by single spaces
RECURSIVE Words(_)
Words(n) == IF n = 0 THEN <<>> ELSE IF n = 1 THEN <<"w">> ELSE <<"w", " ">> \o Words(n - 1)

\* JSON values: a string (s holds its pieces), a number, a list of Len(s)
\* items, null, or no value under the key
Str(s)   == [t |-> "str",    s |-> s]
Num      == [t |-> "num",    s |-> <<>>]
List(s)  == [t |-> "list",   s |-> s]
Missing  == [t |-> "absent", s |-> <<>>]

\* bool(x) of the values given under "approved"
Truthy(a) == a \in {"true", "nonempty_string"}

(***************************************************************************)
(* get_safe_fallback and save_successful_caption                           *)
(***************************************************************************)
\* contents of caption_prompt.json: no file, a file that does not read or
\* parse, a JSON object, or a JSON document that is no object
StoreFile(kind, cap, src, ts) ==
    [kind |-> kind, caption_final |-> cap, last_source |-> src, timestamp |-> ts]
StoreAbsent  == StoreFile("absent",  Missing, "", 0)
StoreGarbage == StoreFile("garbage", Missing, "", 0)
StoreNumber  == StoreFile("number",  Missing, "", 0)

\* the re-check of the stored caption in get_safe_fallback: does the branch
\* that returns val complete?  A value that is no string raises on the way
\* and is caught.
StoredOk(v) ==
    /\ v.t = "str"
    /\ CharLen(v.s) > MIN_STORED_LEN
    /\ ~Contains(v.s, "#")
    /\ WordCount(v.s) >= MIN_STORED_WORDS

\* get_safe_fallback without the re-check of the stored caption
GetSafeFallbackUnchecked(st) ==
    IF st.kind = "object" /\ st.caption_final.t = "str"
    THEN st.caption_final.s
    ELSE <<"A", " ", "quiet", " ", "moment", " ", "captured", " ", "today">>

\* get_safe_fallback that never opens the file
GetSafeFallbackHardcoded(st) ==
    <<"A", " ", "quiet", " ", "moment", " ", "captured", " ", "today">>

\* get_safe_fallback
GetSafeFallback(st) ==
    IF st.kind = "object" /\ st.caption_final.t # "absent" /\ StoredOk(st.caption_final)
    THEN st.caption_final.s
    ELSE DEFAULT_CAPTION

\* the dict built by save_successful_caption, as json.dump writes it
DumpCaption(caption, source, ts) == StoreFile("object", Str(caption), source, ts)

\* a move that copies the bytes into the destination: a crash on the way
\* may leave a truncated file
MovedByCopy(src, dst) == {dst, src, StoreGarbage}

\* shutil.move(tmp_path, "caption_prompt.json") interrupted by a crash.  The
\* temporary file is created with dir=".", next to the destination, so the
\* move is one os.rename: the destination holds what it held or the whole
\* of the temporary file
Moved(src, dst) == {dst, src}

(***************************************************************************)
(* _fallback_response and _parse_json_response                             *)
(***************************************************************************)
NoError == <<>>
ValueErr(what) == <<what>>

\* a quota check that takes every error for a quota error
IsQuotaAnyError(error) == error # NoError

\* "429" in err_str or "quota" in err_str
IsQuota(error) ==
    error # NoError /\ (Contains(Lower(error), "429") \/ Contains(Lower(error), "quota"))

\* _fallback_response
FallbackResponse(st, error) ==
    [approved      |-> "true",
     final_caption |-> GetSafeFallback(st),
     caption_style |-> "FALLBACK",
     risk_level    |-> IF IsQuota(error) THEN "UNKNOWN" ELSE "LOW",
     risk_reason   |-> IF IsQuota(error) THEN "Quota Exceeded (429 Error), so Brain is Offline."
                                         ELSE "Brain Offline - Used Safe Template",
     source        |-> "public_social_media"]

\* what a call that returns nothing leaves in the place of a result
NoResult ==
    [approved |-> "absent", final_caption |-> <<>>, caption_style |-> "absent",
     risk_level |-> "absent", risk_reason |-> "absent", source |-> "absent"]

\* how a call ended: in _fallback_response(.., error), with a result of its
\* own, or with an exception that leaves the function
Fell(st, error) == [res |-> FallbackResponse(st, error), err |-> error, fb |-> TRUE, esc |-> FALSE]
Ret(res) == [res |-> res, err |-> NoError, fb |-> FALSE, esc |-> FALSE]
Escape(error) == [res |-> NoResult, err |-> error, fb |-> FALSE, esc |-> TRUE]

\* the statements of monetization_brain.py that sit inside a try whose
\* except clause catches Exception
BCaught(site) == site \in {"sanitize", "generate", "search", "loads", "validate", "store", "persist"}

\* an exception raised at `site` whose handler logs and returns nothing
Handled(site) == IF BCaught(site) THEN Ret(NoResult) ELSE Escape(NoError)

\* an exception raised at `site`: its handler falls back
Handle(site, st, error) == IF BCaught(site) THEN Fell(st, error) ELSE Escape(error)

\* dict.get(key, default)
Get(v, default) == IF v = "absent" THEN default ELSE v

\* the pieces of a raw response: prose, "{", "}", and the members of an object
Prose     == [k |-> "prose", approved |-> "", caption_final |-> Missing, risk_level |-> "", risk_reason |-> ""]
LB        == [Prose EXCEPT !.k = "{"]
RB        == [Prose EXCEPT !.k = "}"]
Members(approved, cap, level, reason) ==
    [k |-> "members", approved |-> approved, caption_final |-> cap,
     risk_level |-> level, risk_reason |-> reason]
NoMembers == Members("absent", Missing, "absent", "absent")

\* re.search(r'(\{.*\})', text, re.DOTALL): from the first "{" to the last
\* "}" after it; <<>> when there is no match
Search(text) ==
    LET opens == { i \in 1..Len(text) : text[i].k = "{" } IN
    IF opens = {} THEN <<>>
    ELSE LET lo == CHOOSE i \in opens : \A j \in opens : i <= j
             closes == { i \in (lo+1)..Len(text) : text[i].k = "}" }
         IN  IF closes = {} THEN <<>>
             ELSE SubSeq(text, lo, CHOOSE i \in closes : \A j \in closes : j <= i)

\* json.loads of a matched span succeeds on "{" members "}" and on "{}"
Decodes(span) ==
    \/ Len(span) = 3 /\ span[2].k = "members"
    \/ Len(span) = 2
Loads(span) == IF Len(span) = 3 THEN span[2] ELSE NoMembers

\* Rules A to D of _parse_json_response: the error of the first rule that
\* the caption fails, NoError when it passes all four
\* Rule A with its upper limit only
RuleANoMinimum(caption) == WordCount(caption) > 25

RuleA(caption) == WordCount(caption) < MIN_WORDS \/ WordCount(caption) > MAX_WORDS
RuleB(caption) == StartsWithBanned(Lower(caption))
RuleC(caption) == Lower(caption) \in BANNED_KEYWORDS
RuleD(caption) == Contains(caption, "#") \/ Contains(caption, "@")

\* the rules without Rule D
FirstViolationNoSymbolRule(caption) ==
    IF RuleA(caption) THEN ValueErr("Validation: Length")
    ELSE IF RuleB(caption) THEN ValueErr("Validation: Prefix")
    ELSE IF RuleC(caption) THEN ValueErr("Validation: Classification")
    ELSE NoError

\* the rules without Rule B
FirstViolationNoPrefixRule(caption) ==
    IF RuleA(caption) THEN ValueErr("Validation: Length")
    ELSE IF RuleC(caption) THEN ValueErr("Validation: Classification")
    ELSE IF RuleD(caption) THEN ValueErr("Validation: Hashtag")
    ELSE NoError

FirstViolation(caption) ==
    IF RuleA(caption) THEN ValueErr("Validation: Length")
    ELSE IF RuleB(caption) THEN ValueErr("Validation: Prefix")
    ELSE IF RuleC(caption) THEN ValueErr("Validation: Classification")
    ELSE IF RuleD(caption) THEN ValueErr("Validation: Hashtag")
    ELSE NoError

\* the dict returned when the record is not approved
Rejected(data, original_title) ==
    [approved      |-> "absent",
     final_caption |-> original_title,
     caption_style |-> "absent",
     risk_level    |-> "HIGH",
     risk_reason   |-> Get(data.risk_reason, "Brain rejected content"),
     source        |-> "public_social_media"]

\* the dict returned on success
Accepted(data, caption) ==
    [approved      |-> "true",
     final_caption |-> caption,
     caption_style |-> "EDITORIAL",
     risk_level    |-> Get(data.risk_level, "LOW"),
     risk_reason   |-> Get(data.risk_reason, "Approved by safety filter"),
     source        |-> "public_social_media"]

\* _parse_json_response
ParseJsonResponse(text, original_title, st) ==
    LET span == Search(text) IN
    IF span = <<>> THEN Fell(st, ValueErr("Invalid JSON"))
    ELSE IF ~Decodes(span) THEN Handle("loads", st, ValueErr("JSON Decode"))
    ELSE LET data == Loads(span) IN
         IF ~Truthy(data.approved) THEN Ret(Rejected(data, original_title))
         ELSE IF data.caption_final.t \notin {"str", "absent"}
              THEN Handle("validate", st, ValueErr("AttributeError"))
         ELSE LET caption == Strip(data.caption_final.s)
                  error == FirstViolation(caption)
              IN  IF error # NoError THEN Fell(st, error)
                  ELSE Ret(Accepted(data, caption))

\* re.sub(r'[\x00-\x1F\x7F]', '', title).strip(); the titles of the model
\* are shorter than the 200 characters kept by clean_title[:200]
CleanTitle(title) == Strip(SelectSeq(title, LAMBDA tok : tok # "\\x07"))

\* analyze_content.  `api` is what model.generate_content does: it raises
\* (api.raises, with the message api.msg) or returns the text api.text
AnalyzeContent(prov, title, api, st) ==
    IF prov # "gemini" THEN Fell(st, NoError)
    ELSE IF title.t # "str" THEN Handle("sanitize", st, ValueErr("TypeError"))
    ELSE IF api.raises THEN Handle("generate", st, api.msg)
    ELSE ParseJsonResponse(api.text, CleanTitle(title.s), st)

(***************************************************************************)
(* Inputs of the model                                                     *)
(***************************************************************************)
Sp(words) == [i \in 1..(2 * Len(words) - 1) |-> IF i % 2 = 1 THEN words[(i + 1) \div 2] ELSE " "]

GoodCaption  == Sp(<<"A", "quiet", "moment", "today">>)
PaddedCaption == <<" ", " ">> \o GoodCaption \o <<" ">>
ShortCaption == Sp(<<"nice", "outfit", "today">>)
PrefixCaption == Sp(<<"Caption:", "nice", "outfit", "today">>)
GluedPrefixCaption == <<"TITLE:", "nice">> \o <<" ">> \o Sp(<<"outfit", "today", "look">>)
HashCaption  == <<"nice", " ", "outfit", " ", "today", " ", "#", "ootd">>
AtCaption    == <<"nice", " ", "look", " ", "today", " ", "@", "you">>
TwoWords     == Sp(<<"hi", "there">>)
TinyText     == Sp(<<"a", "b">>)
OneWord      == <<"Editorial">>
BannedPhrase == Sp(<<"Safe", "Context">>)
AtShort      == Sp(<<"nice", "look">>) \o <<" ", "@", "you">>

\* captions a response may carry
Captions ==
    { GoodCaption, PaddedCaption, ShortCaption, PrefixCaption, GluedPrefixCaption,
      HashCaption, AtCaption, OneWord, BannedPhrase, <<>>,
      Words(MAX_WORDS), Words(MAX_WORDS + 1) }

\* the members of the objects a response may carry
Records ==
    { Members("true", Str(c), "absent", "absent") : c \in Captions }
    \cup { Members("true", Str(GoodCaption), "MEDIUM", "stated") }
    \cup { Members("false", Str(GoodCaption), "LOW", r) : r \in {"absent", "stated"} }
    \cup { Members(a, Str(GoodCaption), "LOW", "stated") : a \in {"absent", "nonempty_string"} }
    \cup { Members("true", v, "LOW", "stated") : v \in {Missing, Num, List(Words(4))} }

\* raw responses: the object alone, wrapped in prose, no object at all, an
\* empty object, two objects, a stray closing brace
RawResponses ==
    { <<LB, m, RB>> : m \in Records }
    \cup { <<Prose, LB, Members("true", Str(c), "LOW", "stated"), RB, Prose>> :
             c \in {GoodCaption, PrefixCaption} }
    \cup { <<Prose>>, <<>>, <<RB, Prose, LB>>, <<LB, RB>>,
           <<LB, Members("true", Str(GoodCaption), "LOW", "stated"), RB, Prose,
             LB, Members("true", Str(HashCaption), "LOW", "stated"), RB>>,
           <<LB, Members("true", Str(GoodCaption), "LOW", "stated"), RB, Prose, RB>> }

\* what model.generate_content may do
ApiErrors == { <<"429", " ", "Resource", " ", "exhausted">>, <<"Quota", " ", "exceeded">>,
               <<"503", " ", "unavailable">> }
ApiOutcomes ==
    { [raises |-> TRUE, msg |-> m, text |-> <<>>] : m \in ApiErrors }
    \cup { [raises |-> FALSE, msg |-> NoError, text |-> r] : r \in RawResponses }

Title == Str(<<" ", "\\x07", "nice", " ", "outfit", " ">>)

\* the calls of analyze_content: a title with every outcome of the model
\* call, and a title that is no string
AnalyzeInputs ==
    { [title |-> Title, api |-> o] : o \in ApiOutcomes }
    \cup { [title |-> Num, api |-> [raises |-> FALSE, msg |-> NoError, text |-> <<>>]] }

\* the texts save_successful_caption is called with
PersistTexts == { GoodCaption, AtShort, TinyText }
Origins == {"public_social_media"}

\* what caption_prompt.json may hold when the program starts
PriorStores ==
    { StoreAbsent, StoreGarbage, StoreNumber,
      StoreFile("object", Missing, "public_social_media", 0),
      StoreFile("object", List(Words(4)), "public_social_media", 0),
      StoreFile("object", Str(GoodCaption), "public_social_media", 0),
      StoreFile("object", Str(HashCaption), "public_social_media", 0),
      StoreFile("object", Str(TinyText), "public_social_media", 0) }

\* a call of the kind op that was given neither a title nor a response
Call(op, out) == [op |-> op, api |-> "none", text |-> <<>>, title |-> <<>>, out |-> out]
NoCall == Call("none", Ret(NoResult))

BInitOver(providers, stores) ==
    /\ provider \in providers
    /\ store \in stores
    /\ bpc = [c \in Callers |-> "idle"]
    /\ tmpfile = [c \in Callers |-> StoreAbsent]
    /\ persists = 0
    /\ persisted = [valid |-> FALSE, text |-> <<>>]
    /\ last = NoCall

\* analyze_content(title, ...)
Analyze ==
    /\ \E in \in AnalyzeInputs :
         last' = [op    |-> "analyze",
                  api   |-> IF in.api.raises THEN "raises" ELSE "returns",
                  text  |-> in.api.text,
                  title |-> in.title.s,
                  out   |-> AnalyzeContent(provider, in.title, in.api, store)]
    /\ UNCHANGED <<provider, store, bpc, tmpfile, persists, persisted, pvars>>

\* get_safe_fallback(), called on its own
ReadStore ==
    /\ last' = Call("read", Ret([NoResult EXCEPT !.final_caption = GetSafeFallback(store)]))
    /\ UNCHANGED <<provider, store, bpc, tmpfile, persists, persisted, pvars>>

\* save_successful_caption, up to the end of the with block: the dict is
\* written to a temporary file with "timestamp": time.time(), or the write
\* raises and the call returns
PersistWrite(c) ==
    /\ bpc[c] = "idle"
    /\ persists < MaxPersists
    /\ persists' = persists + 1
    /\ \E caption \in PersistTexts, source \in Origins :
         \/ /\ tmpfile' = [tmpfile EXCEPT ![c] = DumpCaption(caption, source, clock)]
            /\ bpc' = [bpc EXCEPT ![c] = "move"]
            /\ last' = NoCall
         \/ /\ last' = Call("persist_failed", Handled("persist"))
            /\ UNCHANGED <<tmpfile, bpc>>
    /\ UNCHANGED <<provider, store, persisted, pvars>>

\* shutil.move(tmp_path, "caption_prompt.json"): the file is replaced, or
\* the move raises and the call returns
PersistMove(c) ==
    /\ bpc[c] = "move"
    /\ bpc' = [bpc EXCEPT ![c] = "idle"]
    /\ \/ /\ store' = tmpfile[c]
          /\ tmpfile' = [tmpfile EXCEPT ![c] = StoreAbsent]
          /\ persisted' = [valid |-> TRUE, text |-> tmpfile[c].caption_final.s]
          /\ last' = Call("persist", Ret(NoResult))
       \/ /\ last' = Call("persist_failed", Handled("persist"))
          /\ UNCHANGED <<store, tmpfile, persisted>>
    /\ UNCHANGED <<provider, persists, pvars>>

\* the process dies while a caller of save_successful_caption has written
\* its temporary file, before its shutil.move is called ("before") or while
\* it runs ("during"), and is started again: the callers are gone, their
\* temporary files stay on disk (delete=False)
BCrash ==
    /\ \E c \in Callers :
         /\ bpc[c] = "move"
         /\ \E when \in {"before", "during"} :
              /\ store' \in (IF when = "before" THEN {store} ELSE Moved(tmpfile[c], store))
              /\ last' = [Call("crash", Ret(NoResult)) EXCEPT !.api = when]
              /\ persisted' = IF store' = store THEN persisted
                              ELSE [valid |-> TRUE, text |-> tmpfile[c].caption_final.s]
              /\ tmpfile' = IF store' = store THEN tmpfile
                             ELSE [tmpfile EXCEPT ![c] = StoreAbsent]
    /\ bpc' = [c \in Callers |-> "idle"]
    /\ UNCHANGED <<provider, persists, pvars>>

BNext ==
    \/ Analyze
    \/ ReadStore
    \/ \E c \in Callers : PersistWrite(c)
    \/ \E c \in Callers : PersistMove(c)
    \/ BCrash

\* the promoter in every state it may be constructed in, the brain as
\* constructed without a key and without a stored caption
PInit == PInitOver(StartTimes, PriorFiles) /\ BInitOver({"none"}, {StoreAbsent})

\* the brain in every state it may be constructed in, the promoter as
\* constructed without a state file
BInit == PInitOver({1700000000}, {FileAbsent}) /\ BInitOver({"gemini", "none"}, PriorStores)

\* the promoter of a present-day process, without a state file or with the
\* file of many earlier runs
SInit == PInitOver({1700000000}, {FileAbsent, FullFile}) /\ BInitOver({"none"}, {StoreAbsent})

\* attempts dispatched to threads by schedule_promotion: their steps interleave
PNext == Tick \/ \E t \in Threads : PromoteStep(t)

\* attempts made one after the other, each returning before the next starts
PNextSeq == Tick \/ PromoteStep(1)

\* promotions scheduled one at a time, in a process that may be torn down
PNextSched == Tick \/ Schedule(1) \/ PromoteStep(1) \/ PCrash

\* the promoter with its attempts running in threads
Spec == PInit /\ [][PNext]_vars

\* the promoter as its host uses it: through schedule_promotion
SpecSched == SInit /\ [][PNextSched]_vars

\* the promoter with its attempts made one at a time
SpecSeq == PInit /\ [][PNextSeq]_vars

\* the brain
SpecBrain == BInit /\ [][BNext]_vars

\* nothing of the module was called yet, and it was constructed as the
\* other module's behaviours assume
PQuiet == attempts = 0 /\ ticks = 0 /\ clock = 1700000000 /\ gfile = FileAbsent
BQuiet == persists = 0 /\ last = NoCall /\ provider = "none" /\ store = StoreAbsent

\* the host process, which uses both modules.  They share no state, so a
\* behaviour exercises one of them while the other stays as constructed.
HostInit == PInit \/ BInit
HostNext ==
    \/ BQuiet /\ PNextSeq
    \/ PQuiet /\ BNext
SpecHost == HostInit /\ [][HostNext]_vars

(***************************************************************************)
(* Properties                                                              *)
(***************************************************************************)
InHistory(h) == state.kind = "dict" /\ Contains(state.posted_hashes, h)
PassedGuard(t) == pc[t] \in {"channels", "insert", "register"}

\* C1 (cooldown): with attempts made one after the other on one guard, no
\* comment is posted less than 6 hours after the registration of an earlier
\* successful attempt.
C1_Cooldown == \A p \in posts : ~p.early

\* C1, witness: an attempt made one second before the 6 hours are over, after
\* an attempt that succeeded, is refused by the rate limit.
C1_Witness ==
    /\ lastSuccess # -1
    /\ outcome[1] = "RateLimited"
    /\ clock - lastSuccess = 6 * 3600 - 1

\* C2 (dedup): with attempts made one after the other, no comment is posted
\* for a fingerprint that is in the recorded history at that moment, and a
\* guard check made once the cooldown has elapsed for a fingerprint in the
\* history ends the attempt as Duplicate.
C2_Dedup ==
    /\ [](\A p \in posts : ~p.seen)
    /\ [][\A t \in Threads :
            (/\ pc[t] = "can_run" /\ pc'[t] # "can_run"
             /\ InHistory(hash[t])
             /\ clock - state.last_run >= 6 * 3600)
            => outcome'[t] = "Duplicate"]_vars

\* C2, witness: a fingerprint posted earlier on this guard, still in the
\* history, is attempted again after the cooldown and skipped as Duplicate.
C2_Witness ==
    /\ outcome[1] = "Duplicate"
    /\ lastSuccess # -1 /\ clock - lastSuccess >= 6 * 3600
    /\ \E p \in posts : InHistory(p.fp)

\* C3 (mutual exclusion), as claimed: two attempts with the same fingerprint
\* running in two threads are never both past the cooldown/duplicate checks,
\* so at most one of them reaches the external submit call.
C3_MutualExclusion ==
    \A a, b \in Threads :
        (a # b /\ hash[a] = hash[b]) => ~(PassedGuard(a) /\ PassedGuard(b))

\* the validator's structural rules, on the text of a result
InWordRange(c) == WordCount(c) >= 4 /\ WordCount(c) <= 25
HasLabelPrefix(c) ==
    Len(c) >= 1 /\ LowerTok(c[1]) \in {"caption:", "title:", "description:", "output:"}
IsBannedPhrase(c) ==
    Lower(c) \in { <<"editorial">>, <<"approved">>, <<"safe", " ", "context">>,
                   <<"public", " ", "domain">>, <<"ypp", " ", "safe">> }
HasSymbol(c) == Contains(c, "#") \/ Contains(c, "@")
Structural(c) == InWordRange(c) /\ ~HasLabelPrefix(c) /\ ~IsBannedPhrase(c) /\ ~HasSymbol(c)

\* C4 (validator soundness): a result that is approved and is not a fallback
\* has a final text of 4 to 25 words, without a banned label prefix, that is
\* no banned classification phrase and holds neither '#' nor '@'.
C4_ValidatorSoundness ==
    (last.out.res.approved = "true" /\ last.out.res.caption_style # "FALLBACK")
        => Structural(last.out.res.final_caption)

\* C4, witness: a caption of exactly 25 words is returned as validated.
C4_Witness ==
    /\ last.op = "analyze"
    /\ last.out.res.approved = "true"
    /\ last.out.res.caption_style = "EDITORIAL"
    /\ WordCount(last.out.res.final_caption) = 25

\* the minimal re-check of a fallback text
MinimalOk(c) == c # <<>> /\ ~Contains(c, "#") /\ WordCount(c) >= 2

\* C5 (fallback totality): whatever the failure and whatever the safe-result
\* file holds, _fallback_response returns (no exception leaves it) a result
\* with approved = true whose text is non-empty, has no '#' and at least 2
\* words; get_safe_fallback called on its own returns such a text too.
C5_FallbackTotal ==
    /\ last.out.fb =>
          /\ ~last.out.esc
          /\ last.out.res.approved = "true"
          /\ MinimalOk(last.out.res.final_caption)
    /\ last.op = "read" => (~last.out.esc /\ MinimalOk(last.out.res.final_caption))

\* C5, witness: the file holds a caption with a '#', and a fallback caused
\* by an error of the analysis call returns the hardcoded default.
C5_Witness ==
    /\ last.out.fb
    /\ last.out.err = <<"503", " ", "unavailable">>
    /\ store.kind = "object" /\ store.caption_final.t = "str"
    /\ Contains(store.caption_final.s, "#")
    /\ last.out.res.final_caption = DEFAULT_CAPTION

\* C6 (fallback safe by construction), as claimed: every result with style
\* FALLBACK has a final text that satisfies all the validator's structural
\* rules.
C6_FallbackStructural ==
    last.out.res.caption_style = "FALLBACK" => Structural(last.out.res.final_caption)

\* the record that _parse_json_response decodes from the text of the last
\* call, when the call got that far
GotRecord ==
    /\ last.op = "analyze" /\ provider = "gemini"
    /\ last.title # <<>> /\ last.api = "returns"
    /\ Search(last.text) # <<>> /\ Decodes(Search(last.text))
LastRecord == Loads(Search(last.text))

\* C7 (rejection surfaced), as claimed: when the record's approved field is
\* false or absent the result has approved = false, the validated style,
\* risk_level HIGH and the record's reason, and no fallback is made.
C7_RejectionSurfaced ==
    (GotRecord /\ LastRecord.approved \in {"false", "absent"}) =>
        /\ last.out.res.approved = "false"
        /\ last.out.res.caption_style = "EDITORIAL"
        /\ last.out.res.risk_level = "HIGH"
        /\ LastRecord.risk_reason # "absent"
              => last.out.res.risk_reason = LastRecord.risk_reason
        /\ ~last.out.fb

\* the candidate text of an approved record whose caption is a string or
\* missing, and the gate it fails first
Candidate == Strip(LastRecord.caption_final.s)
FirstGate(c) ==
    IF ~InWordRange(c) THEN <<"Validation: Length">>
    ELSE IF HasLabelPrefix(c) THEN <<"Validation: Prefix">>
    ELSE IF IsBannedPhrase(c) THEN <<"Validation: Classification">>
    ELSE <<"Validation: Hashtag">>
Responded ==
    last.op = "analyze" /\ provider = "gemini" /\ last.title # <<>> /\ last.api = "returns"

\* C8 (technical failures fall back): a response without a parsable object,
\* or whose approved record carries a caption that fails a gate, yields the
\* fallback's result (style FALLBACK, approved = true) with the kind of the
\* first failing gate, never the failing caption as a validated result.
C8_FailuresFallBack ==
    /\ (Responded /\ Search(last.text) = <<>>) =>
          (last.out.fb /\ last.out.err = <<"Invalid JSON">>
              /\ last.out.res.caption_style = "FALLBACK" /\ last.out.res.approved = "true")
    /\ (Responded /\ Search(last.text) # <<>> /\ ~Decodes(Search(last.text))) =>
          (last.out.fb /\ last.out.err = <<"JSON Decode">>
              /\ last.out.res.caption_style = "FALLBACK" /\ last.out.res.approved = "true")
    /\ (/\ Responded /\ GotRecord
        /\ Truthy(LastRecord.approved)
        /\ LastRecord.caption_final.t \in {"str", "absent"}
        /\ ~Structural(Candidate)) =>
          (last.out.fb /\ last.out.err = FirstGate(Candidate)
              /\ last.out.res.caption_style = "FALLBACK" /\ last.out.res.approved = "true")

\* C8, witness: "Caption: nice outfit today" passes the length gate, fails
\* the prefix gate, and the result is the fallback's.
C8_Witness ==
    /\ GotRecord
    /\ Candidate = <<"Caption:", " ", "nice", " ", "outfit", " ", "today">>
    /\ last.out.fb
    /\ last.out.err = <<"Validation: Prefix">>

\* C9 (no failure is fatal): no exception leaves _promote_sync or
\* analyze_content (nor the store's functions): an attempt that returned is
\* a performed action or one of the skips, an analysis that returned is a
\* fallback, a validated result or a rejection.
C9_NothingEscapes ==
    /\ \A t \in Threads :
          /\ outcome[t] # "Escaped"
          /\ pc[t] = "done" =>
                outcome[t] \in {"Performed", "RateLimited", "Duplicate",
                                "PreconditionUnresolved", "ExternalFailure"}
    /\ ~last.out.esc
    /\ last.op = "analyze" =>
          \/ last.out.fb /\ last.out.res.caption_style = "FALLBACK"
          \/ last.out.res.caption_style = "EDITORIAL"
          \/ last.out.res.risk_level = "HIGH"

\* C9, witness: the guard file held a document of the wrong shape, the guard
\* check raised on it, and the attempt returned as a skip.
C9_Witness ==
    /\ state.kind = "list"
    /\ pc[1] = "done"
    /\ outcome[1] = "ExternalFailure"

\* C10 (cache round trip), as claimed: a completed persist(t, o) followed by
\* a read with no writer in between returns t.
C10_RoundTrip ==
    (last.op = "read" /\ persisted.valid) => last.out.res.final_caption = persisted.text

\* C10, amended: the read returns t when t has more than 5 characters, no
\* '#' and at least 2 words, and the hardcoded default otherwise.
C10_RoundTripChecked ==
    (last.op = "read" /\ persisted.valid) =>
        last.out.res.final_caption =
            IF CharLen(persisted.text) > 5 /\ ~Contains(persisted.text, "#")
                   /\ WordCount(persisted.text) >= 2
            THEN persisted.text
            ELSE <<"A", " ", "quiet", " ", "moment", " ", "captured", " ", "today">>

\* C10, witness: a text was persisted, then read back unchanged.
C10_Witness ==
    /\ last.op = "read" /\ persisted.valid
    /\ persisted.text = <<"nice", " ", "look", " ", "@", "you">>
    /\ last.out.res.final_caption = persisted.text

\* the complete documents that calls of save_successful_caption write
WrittenValues == { StoreFile("object", Str(c), o, clock) : c \in PersistTexts, o \in Origins }

\* C11 (atomic persistence): the safe-result file changes only by the move
\* of a caller's complete temporary file into its place; a move that
\* completes leaves the file holding what that caller wrote (the last writer
\* wins); a crash between the temporary write and the move leaves the file
\* as it was, and a crash during the move leaves the old or the new value.
C11_AtomicPersist ==
    [][/\ store' # store =>
              \E c \in Callers :
                  bpc[c] = "move" /\ store' = tmpfile[c] /\ store' \in WrittenValues
       /\ \A c \in Callers :
              (bpc[c] = "move" /\ bpc'[c] = "idle" /\ last'.op = "persist")
                  => store' = tmpfile[c]
       /\ (BCrash /\ last'.api = "before") => store' = store
       /\ BCrash => (store' = store \/ store' \in WrittenValues)]_vars

\* C11, witness: the process crashed after a caller wrote its temporary
\* file and before the move; the file still holds the text of the earlier,
\* completed persist, and the orphaned temporary file holds another text.
C11_Witness ==
    /\ last.op = "crash" /\ last.api = "before"
    /\ persisted.valid
    /\ store.kind = "object" /\ store.caption_final.s = persisted.text
    /\ \E c \in Callers :
          tmpfile[c].kind = "object" /\ tmpfile[c].caption_final.s # persisted.text

Skips == {"RateLimited", "Duplicate", "PreconditionUnresolved", "ExternalFailure"}

\* C12 (side-effect count), as claimed: an attempt that ended as Performed
\* made exactly one commentThreads insert call, and an attempt that ended as
\* any skip, ExternalFailure included, made none.
C12_SideEffectCount ==
    \A t \in Threads :
        pc[t] = "done" =>
            /\ outcome[t] = "Performed" => calls[t] = 1
            /\ outcome[t] \in Skips => calls[t] = 0

\* C12, amended: exactly one insert call when Performed, none when
\* RateLimited, Duplicate or PreconditionUnresolved, and at most one when
\* ExternalFailure.
C12_SideEffectCountMade ==
    \A t \in Threads :
        pc[t] = "done" =>
            /\ outcome[t] = "Performed" => calls[t] = 1
            /\ outcome[t] \in {"RateLimited", "Duplicate", "PreconditionUnresolved"}
                  => calls[t] = 0
            /\ outcome[t] = "ExternalFailure" => calls[t] \in {0, 1}

\* C12, witness: after a performed attempt, an attempt whose insert call
\* raised has ended as ExternalFailure with that one call made.
C12_Witness ==
    /\ pc[1] = "done" /\ outcome[1] = "ExternalFailure" /\ calls[1] = 1
    /\ posts # {}

\* what _can_run reports as remaining, in seconds
Remaining == 6 * 3600 - (clock - state.last_run)

\* C13 (fresh-state scenario), as claimed: on a fresh guard (last_run 0, no
\* history) the first attempt, made at now = 1000, is not refused by the
\* guard (it is Performed when its preconditions resolve and the insert
\* succeeds); an attempt made one second after a success at 1000 is skipped
\* as RateLimited with 21599 seconds remaining.
C13_FreshScenario ==
    /\ (/\ attempts = 1 /\ pc[1] = "done"
        /\ ticks = 0 /\ clock = 1000
        /\ lastSuccess = -1 => state = DefaultState
        /\ lastSuccess # -1 => state = Registered(DefaultState, 1000, state.posted_hashes[1]))
          => outcome[1] \in {"Performed", "PreconditionUnresolved", "ExternalFailure"}
    /\ (/\ attempts = 2 /\ pc[1] = "done"
        /\ lastSuccess = 1000 /\ clock = 1001)
          => (outcome[1] = "RateLimited" /\ Remaining = 21599)

\* C14 (corrupt guard state never propagates), as claimed: when the state
\* file is missing, unreadable, or a document of the wrong shape, the state
\* loaded from it is the default (last_run 0, no hashes), and the guard
\* check on the loaded state decides as on a guard state (it does not raise).
C14_CorruptNeverPropagates ==
    /\ (attempts = 0 /\ gfile.kind # "dict") => state = DefaultState
    /\ \A t \in Threads : CanRun(state, clock, hash[t]) # "raise"

\* no attempt is in flight, apart from tasks that sleep
OnlySleepers == \A t \in Threads : pc[t] \in {"idle", "done", "sleeping"}

\* C15 (scheduled promotion): a task of schedule_promotion whose delay has
\* not elapsed does nothing but sleep (no guard check, no post, no write of
\* the guard file); it leaves its sleep only once the delay has elapsed and
\* then begins one attempt; when the process is torn down while tasks
\* sleep, no task is left, the guard file and the posts are as they were
\* and the new process holds the guard state of the file.
C15_ScheduledPromotion ==
    [][/\ \A t \in Threads :
              (pc[t] = "sleeping" /\ clock < due[t]) => pc'[t] \in {"sleeping", "idle"}
       /\ \A t \in Threads :
              (pc[t] = "sleeping" /\ pc'[t] \notin {"sleeping", "idle"})
                  => (clock >= due[t] /\ pc'[t] = "can_run" /\ calls'[t] = 0)
       /\ (OnlySleepers /\ \E t \in Threads : pc[t] = "sleeping" /\ pc'[t] \in {"sleeping", "idle"})
              => (posts' = posts /\ gfile' = gfile)
       /\ (OnlySleepers /\ PCrash)
              => /\ \A t \in Threads : pc'[t] = "idle" /\ due'[t] = 0
                 /\ posts' = posts /\ gfile' = gfile
                 /\ state' = LoadState(gfile)]_vars

\* C15, witness: after a performed attempt a promotion was scheduled, time
\* has passed, less than the delay, and the task still sleeps.
C15_Witness ==
    /\ pc[1] = "sleeping"
    /\ clock < due[1] /\ clock > due[1] - 180
    /\ posts # {}

\* the failures of the validator: no object, undecodable object, a field of
\* the wrong type, and the four gates
ValidatorFailures ==
    { <<"Invalid JSON">>, <<"JSON Decode">>, <<"AttributeError">>,
      <<"Validation: Length">>, <<"Validation: Prefix">>,
      <<"Validation: Classification">>, <<"Validation: Hashtag">> }

\* C16 (fallback risk level): a fallback result has risk_level UNKNOWN or
\* LOW; it is UNKNOWN only when the analysis call raised with a rate-limit
\* error, and LOW for every failure of the validator (malformed response,
\* length, label prefix, classification, symbol) and when no model is
\* configured.
C16_FallbackRisk ==
    last.out.fb =>
        /\ last.out.res.risk_level \in {"UNKNOWN", "LOW"}
        /\ last.out.res.risk_level = "UNKNOWN" =>
              /\ last.api = "raises"
              /\ last.out.err \in { <<"429", " ", "Resource", " ", "exhausted">>,
                                    <<"Quota", " ", "exceeded">> }
        /\ last.out.err \in ValidatorFailures \cup {NoError} => last.out.res.risk_level = "LOW"

\* C16, witness: the analysis call raised "Quota exceeded" and the fallback
\* result has risk_level UNKNOWN.
C16_Witness ==
    /\ last.out.fb /\ last.api = "raises"
    /\ last.out.err = <<"Quota", " ", "exceeded">>
    /\ last.out.res.risk_level = "UNKNOWN"

\* C17 (skips leave the guard untouched): the step that ends an attempt as
\* a skip changes neither promoter.state nor the state file, and the two
\* change only in the step that registers the success of an attempt whose
\* insert call has returned.
C17_SkipsLeaveGuard ==
    [][/\ \A t \in Threads :
              (pc[t] # "done" /\ pc'[t] = "done" /\ outcome'[t] \in Skips)
                  => (state' = state /\ gfile' = gfile)
       /\ (state' # state \/ gfile' # gfile) =>
              \E t \in Threads :
                  /\ pc[t] = "register" /\ calls[t] = 1
                  /\ pc'[t] = "done" /\ outcome'[t] = "Performed"]_vars

\* C17, witness: the insert call of the first attempt raised; the attempt
\* ended as ExternalFailure and the guard is as fresh as it was, in memory
\* and on disk.
C17_Witness ==
    /\ pc[1] = "done" /\ outcome[1] = "ExternalFailure" /\ calls[1] = 1
    /\ posts = {}
    /\ state = DefaultState /\ gfile = FileAbsent

NoDuplicates(s) == Cardinality({ s[i] : i \in 1..Len(s) }) = Len(s)

\* C18 (fingerprint history): with attempts made one after the other,
\* posted_hashes holds the fingerprints of the most recent successes, at
\* most 50 of them, oldest first (the oldest is dropped when a 51st is
\* appended), and holds no fingerprint twice.
C18_HistoryInvariant ==
    state.kind = "dict" =>
        /\ Len(state.posted_hashes) <= 50
        /\ Len(state.posted_hashes) = (IF Len(performed) > 50 THEN 50 ELSE Len(performed))
        /\ \A i \in 1..Len(state.posted_hashes) :
               state.posted_hashes[i] =
                   performed[Len(performed) - Len(state.posted_hashes) + i]
        /\ NoDuplicates(state.posted_hashes)

\* C18, witness: the guard held 50 fingerprints; two more were registered
\* and the two oldest dropped, the second of the new ones being the
\* fingerprint that was dropped first.
C18_Witness ==
    /\ Len(performed) = 52 /\ Len(state.posted_hashes) = 50
    /\ performed[52] = performed[1]
    /\ state.posted_hashes[50] = performed[52]
    /\ state.posted_hashes[1] = performed[3]

\* C19 (guard state replaced atomically), as claimed: when the process
\* crashes, also inside _save_state, the state file holds the complete
\* previous state or the complete new state, and the state loaded after the
\* restart enforces the cooldown and the history on record before the crash.
C19_AtomicGuardSave ==
    [][PCrash =>
          /\ \/ gfile' = gfile
             \/ \E t \in Threads :
                   /\ pc[t] = "register"
                   /\ gfile' = DumpState(Registered(state, clock, hash[t]))
          /\ state'.last_run >= LoadState(gfile).last_run
          /\ \A i \in 2..Len(LoadState(gfile).posted_hashes) :
                 Contains(state'.posted_hashes, LoadState(gfile).posted_hashes[i])]_vars

\* the first object of a text: from its first "{" to the first "}" after it
FirstObject(text) ==
    LET opens == { i \in 1..Len(text) : text[i].k = "{" } IN
    IF opens = {} THEN <<>>
    ELSE LET lo == CHOOSE i \in opens : \A j \in opens : i <= j
             closes == { i \in (lo+1)..Len(text) : text[i].k = "}" }
         IN  IF closes = {} THEN <<>>
             ELSE SubSeq(text, lo, CHOOSE i \in closes : \A j \in closes : i <= j)
WellFormed(obj) == Len(obj) = 2 \/ (Len(obj) = 3 /\ obj[2].k = "members")

\* C20 (first embedded object), as claimed: when the response holds a
\* well-formed first object, whatever follows it, the result is the one
\* the validator gives for that object alone, and it is no failure for a
\* malformed response.
C20_FirstObject ==
    (Responded /\ WellFormed(FirstObject(last.text))) =>
        /\ last.out.err \notin { <<"Invalid JSON">>, <<"JSON Decode">> }
        /\ last.out = ParseJsonResponse(FirstObject(last.text), CleanTitle(last.title), store)

\* C21 (the classification gate never rejects): no call fails with
\* "Validation: Classification"; an approved record whose caption is one of
\* the banned phrases is rejected by the length gate.
C21_ClassificationUnreachable ==
    /\ last.out.err # <<"Validation: Classification">>
    /\ (/\ GotRecord
        /\ Truthy(LastRecord.approved)
        /\ LastRecord.caption_final.t = "str"
        /\ IsBannedPhrase(Candidate))
          => (last.out.fb /\ last.out.err = <<"Validation: Length">>)

\* C21, witness: the approved caption "Safe Context" was rejected for its
\* length.
C21_Witness ==
    /\ GotRecord /\ Truthy(LastRecord.approved)
    /\ Candidate = <<"Safe", " ", "Context">>
    /\ last.out.fb /\ last.out.err = <<"Validation: Length">>

====
